---- MODULE Spec2Model ----
(***************************************************************************)
(* Model of ot_utils (src/src/lib.rs): the Slicer that admits .wav files,   *)
(* concatenates them into one sample chain and writes the Octatrack .ot     *)
(* metadata record.                                                         *)
(*                                                                          *)
(* The Slicer struct is the record `slicer`.  The file system the library   *)
(* works on is `wav_disk` (concatenated audio per output path, run-length   *)
(* encoded as one segment per write burst) and `ot_disk` (the bytes of the  *)
(* .ot file per output path).  `last` records the most recent call, its     *)
(* arguments, its result and the Slicer as it stood before the call;         *)
(* `batch_files` the paths add_file accepted since the last generate.        *)
(***************************************************************************)
EXTENDS Integers, Sequences, FiniteSets, TLC

VARIABLES slicer, wav_disk, ot_disk, panicked, overflow_checks, batches, admitted,
          batch_files, last

vars == <<slicer, wav_disk, ot_disk, panicked, overflow_checks, batches, admitted,
          batch_files, last>>

----------------------------------------------------------------------------
(* Bounds of the model *)

\* files the caller admits to the one batch of Spec
MaxFiles == 3
\* generate_ot_file calls per run in SpecBatches
MaxBatches == 2
\* files the caller admits per run in SpecBatches
MaxRunFiles == 3
\* add_file calls of the one batch in SpecCap
MaxCapFiles == 66
\* admissions of SpecCap that pick any path; later ones repeat the last path
MaxVaried == 2
\* files the caller admits to the one batch of SpecEnc
MaxEncFiles == 2

----------------------------------------------------------------------------
(* Program constants *)

DefaultSampleRate == 44100
DefaultTempo == 124
SlotCount == 64
SliceLimit == 65
ChecksumStart == 16
GainValue == 48
QuantizeValue == 255
BarsTempo == 124
BarsScale == 25
U16Mod == 65536
\* significant binary digits of an f32
F32Digits == 24

\* a path of the file system holds no file, or a file with its content
NoFile == [exists |-> FALSE, data |-> <<>>]

FileOf(data) == [exists |-> TRUE, data |-> data]

\* The .wav files present on disk: WavSpec and number of samples.
InputFiles ==
    [ p \in {"a.wav", "b.wav", "long.wav", "take.wav", "stereo.wav", "rate48k.wav", "float32.wav"} |->
        CASE p = "a.wav"       -> [channels |-> 1, sample_rate |-> 44100, bits_per_sample |-> 16, sample_format |-> "Int",   samples |-> 22050]
          [] p = "b.wav"       -> [channels |-> 1, sample_rate |-> 44100, bits_per_sample |-> 16, sample_format |-> "Int",   samples |-> 44100]
          [] p = "long.wav"    -> [channels |-> 1, sample_rate |-> 44100, bits_per_sample |-> 16, sample_format |-> "Int",   samples |-> 65535]
          [] p = "take.wav"    -> [channels |-> 1, sample_rate |-> 44100, bits_per_sample |-> 16, sample_format |-> "Int",   samples |-> 1504379]
          [] p = "stereo.wav"  -> [channels |-> 2, sample_rate |-> 44100, bits_per_sample |-> 16, sample_format |-> "Int",   samples |-> 22050]
          [] p = "rate48k.wav" -> [channels |-> 1, sample_rate |-> 48000, bits_per_sample |-> 16, sample_format |-> "Int",   samples |-> 48000]
          [] p = "float32.wav" -> [channels |-> 1, sample_rate |-> 44100, bits_per_sample |-> 32, sample_format |-> "Float", samples |-> 22050] ]

\* Paths the caller passes to add_file ("missing.wav" is no file).
Paths == {"a.wav", "b.wav", "stereo.wav", "rate48k.wav", "float32.wav", "missing.wav"}
CapPaths == {"b.wav", "long.wav"}
BatchPaths == {"a.wav", "b.wav"}
EncPaths == {"a.wav", "take.wav"}

Tempos == {124, 120}
\* tempo is a u32: 89478485 * 24 is below 2^31, 178956971 * 24 is above 2^32
EncTempos == {124, 120, 89478485, 178956971}
SampleRates == {44100, 48000}
\* <<output_folder, output_filename>>
OutPaths == { <<"", "output">>, <<"out", "chain">> }

is_file(path) == path \in DOMAIN InputFiles

SamplesOf(path) == InputFiles[path].samples

Min(a, b) == IF a < b THEN a ELSE b

----------------------------------------------------------------------------
(* Slicer::new, Slicer::clear *)

new ==
    [ slices          |-> <<>>,
      filelist        |-> <<>>,
      output_folder   |-> "",
      output_filename |-> "output",
      sample_rate     |-> DefaultSampleRate,
      start_offset    |-> 0,
      max_file_length |-> 0,
      stereo          |-> FALSE,
      tempo           |-> DefaultTempo ]

clear_keeps_tempo(self) ==
    [self EXCEPT !.slices = <<>>, !.start_offset = 0, !.sample_rate = DefaultSampleRate]

clear_keeps_slices(self) ==
    [self EXCEPT !.start_offset = 0, !.sample_rate = DefaultSampleRate, !.tempo = DefaultTempo]

clear_drops_pending(self) ==
    [self EXCEPT !.slices = <<>>,
                 !.filelist = <<>>,
                 !.max_file_length = 0,
                 !.start_offset = 0,
                 !.sample_rate = DefaultSampleRate,
                 !.tempo = DefaultTempo]

clear(self) ==
    [self EXCEPT !.slices = <<>>,
                 !.start_offset = 0,
                 !.sample_rate = DefaultSampleRate,
                 !.tempo = DefaultTempo]

----------------------------------------------------------------------------
(* Slicer::add_file *)

\* the WavSpec add_file and process_file accept
ValidSpec(self) ==
    [channels |-> 1, sample_rate |-> self.sample_rate, bits_per_sample |-> 16, sample_format |-> "Int"]

SpecOf(path) ==
    [channels |-> InputFiles[path].channels, sample_rate |-> InputFiles[path].sample_rate,
     bits_per_sample |-> InputFiles[path].bits_per_sample, sample_format |-> InputFiles[path].sample_format]

add_file_counts_first(self, filepath) ==
    IF is_file(filepath)
    THEN LET total_samples == SamplesOf(filepath)
             counted == IF total_samples > self.max_file_length
                        THEN [self EXCEPT !.max_file_length = total_samples]
                        ELSE self
         IN  IF SpecOf(filepath) = ValidSpec(self)
             THEN [self |-> [counted EXCEPT !.filelist = Append(@, filepath)], result |-> "Ok"]
             ELSE [self |-> counted, result |-> "ErrInvalidFile"]
    ELSE [self |-> self, result |-> "ErrFileNotFound"]

add_file_immediate(self, filepath) ==
    IF is_file(filepath)
    THEN IF SpecOf(filepath) = ValidSpec(self)
         THEN LET total_samples == SamplesOf(filepath)
                  counted == IF total_samples > self.max_file_length
                             THEN [self EXCEPT !.max_file_length = total_samples]
                             ELSE self
                  new_ot_slice == [start_point |-> self.start_offset,
                                   length      |-> total_samples,
                                   loop_point  |-> total_samples]
              IN  [self |-> [counted EXCEPT !.filelist = Append(@, filepath),
                                            !.slices = Append(@, new_ot_slice),
                                            !.start_offset = @ + total_samples],
                   result |-> "Ok"]
         ELSE [self |-> self, result |-> "ErrInvalidFile"]
    ELSE [self |-> self, result |-> "ErrFileNotFound"]

add_file_last_length(self, filepath) ==
    IF is_file(filepath)
    THEN IF SpecOf(filepath) = ValidSpec(self)
         THEN LET total_samples == SamplesOf(filepath)
                  counted == [self EXCEPT !.max_file_length = total_samples]
              IN  [self |-> [counted EXCEPT !.filelist = Append(@, filepath)], result |-> "Ok"]
         ELSE [self |-> self, result |-> "ErrInvalidFile"]
    ELSE [self |-> self, result |-> "ErrFileNotFound"]

add_file(self, filepath) ==
    IF is_file(filepath)
    THEN IF SpecOf(filepath) = ValidSpec(self)
         THEN LET total_samples == SamplesOf(filepath)
                  counted == IF total_samples > self.max_file_length
                             THEN [self EXCEPT !.max_file_length = total_samples]
                             ELSE self
              IN  [self |-> [counted EXCEPT !.filelist = Append(@, filepath)], result |-> "Ok"]
         ELSE [self |-> self, result |-> "ErrInvalidFile"]
    ELSE [self |-> self, result |-> "ErrFileNotFound"]

----------------------------------------------------------------------------
(* Slicer::fill_wav_file, Slicer::process_file *)

OutPath(self) == <<self.output_folder, self.output_filename>>

\* `writer` is the content of the file the WavWriter was opened on; `samples`
\* is the decoded input [src, len].  One call writes one segment: `real`
\* samples of the input followed by `pad` zero samples.
fill_wav_file_padded_len(self, writer, samples, evenly_spaced) ==
    IF evenly_spaced
    THEN [ writer |-> Append(writer, [src  |-> samples.src,
                                      real |-> Min(samples.len, self.max_file_length),
                                      pad  |-> IF self.max_file_length > samples.len
                                               THEN self.max_file_length - samples.len ELSE 0]),
           ret    |-> self.max_file_length ]
    ELSE [ writer |-> Append(writer, [src |-> samples.src, real |-> samples.len, pad |-> 0]),
           ret    |-> samples.len ]

fill_wav_file(self, writer, samples, evenly_spaced) ==
    IF evenly_spaced
    THEN [ writer |-> Append(writer, [src  |-> samples.src,
                                      real |-> Min(samples.len, self.max_file_length),
                                      pad  |-> IF self.max_file_length > samples.len
                                               THEN self.max_file_length - samples.len ELSE 0]),
           ret    |-> samples.len ]
    ELSE [ writer |-> Append(writer, [src |-> samples.src, real |-> samples.len, pad |-> 0]),
           ret    |-> samples.len ]

\* w = [self, wav]: the Slicer and the audio files on disk
process_file(w, filepath, evenly_spaced) ==
    IF Len(w.self.slices) < SliceLimit
    THEN LET samples        == [src |-> filepath, len |-> SamplesOf(filepath)]
             temp_file_path == OutPath(w.self)
             opened         == IF w.wav[temp_file_path].exists
                               THEN w.wav[temp_file_path].data
                               ELSE <<>>
             filled         == fill_wav_file(w.self, opened, samples, evenly_spaced)
             slice_len      == filled.ret
             new_ot_slice   == [start_point |-> w.self.start_offset,
                                length      |-> slice_len,
                                loop_point  |-> slice_len]
         IN  [ self   |-> [w.self EXCEPT !.slices = Append(@, new_ot_slice),
                                         !.start_offset = @ + slice_len],
               wav    |-> [w.wav EXCEPT ![temp_file_path] = FileOf(filled.writer)],
               result |-> "Ok" ]
    ELSE [ self |-> w.self, wav |-> w.wav, result |-> "ErrNoMoreSlots" ]

RECURSIVE process_all_skips_failed(_, _, _)
process_all_skips_failed(w, n, evenly_spaced) ==
    IF n = 0
    THEN [self |-> w.self, wav |-> w.wav, panic |-> FALSE]
    ELSE LET k         == Len(w.self.filelist)
             file_path == w.self.filelist[k]
             popped    == [w.self EXCEPT !.filelist = SubSeq(@, 1, k - 1)]
             r         == process_file([self |-> popped, wav |-> w.wav], file_path, evenly_spaced)
         IN  process_all_skips_failed([self |-> r.self, wav |-> r.wav], n - 1, evenly_spaced)

\* the loop of generate_ot_file: n times pop the last path and process it;
\* unwrap() of an Err panics
RECURSIVE process_all(_, _, _)
process_all(w, n, evenly_spaced) ==
    IF n = 0
    THEN [self |-> w.self, wav |-> w.wav, panic |-> FALSE]
    ELSE LET k         == Len(w.self.filelist)
             file_path == w.self.filelist[k]
             popped    == [w.self EXCEPT !.filelist = SubSeq(@, 1, k - 1)]
             r         == process_file([self |-> popped, wav |-> w.wav], file_path, evenly_spaced)
         IN  IF r.result = "Ok"
             THEN process_all([self |-> r.self, wav |-> r.wav], n - 1, evenly_spaced)
             ELSE [self |-> r.self, wav |-> r.wav, panic |-> TRUE]

----------------------------------------------------------------------------
(* byte buffer helpers *)

to_le_bytes32(num) ==
    << num % 256, (num \div 256) % 256, (num \div 65536) % 256, (num \div 16777216) % 256 >>

to_le_bytes16(num) == << num % 256, (num \div 256) % 256 >>

push_u32_le(vector, num) ==
    LET array == to_le_bytes32(num)
    IN  vector \o << array[1], array[2], array[3], array[4] >>

push_u32(vector, num) ==
    LET array == to_le_bytes32(num)
    IN  vector \o << array[4], array[3], array[2], array[1] >>

push_u16(vector, num) ==
    LET array == to_le_bytes16(num)
    IN  vector \o << array[2], array[1] >>

----------------------------------------------------------------------------
(* u32 and f32 arithmetic of generate_ot_file *)

\* a * b on u32, computed on 16-bit halves: the wrapped product and whether
\* the multiplication overflowed
mul_u32(a, b) ==
    LET lo == (a % 65536) * b
        hi == (a \div 65536) * b + (lo \div 65536)
    IN  [value |-> (hi % 65536) * 65536 + (lo % 65536), overflowed |-> hi >= 65536]

tempo_field_default(self) ==
    LET t6  == mul_u32(DefaultTempo, 6)
        t24 == mul_u32(t6.value, 4)
    IN  [value |-> t24.value, overflowed |-> t6.overflowed \/ t24.overflowed]

\* self.tempo * 6 * 4
tempo_field(self) ==
    LET t6  == mul_u32(self.tempo, 6)
        t24 == mul_u32(t6.value, 4)
    IN  [value |-> t24.value, overflowed |-> t6.overflowed \/ t24.overflowed]

\* 2^n for n in 0..30
Pow2(n) ==
    << 1, 2, 4, 8, 16, 32, 64, 128, 256, 512, 1024, 2048, 4096, 8192, 16384, 32768,
       65536, 131072, 262144, 524288, 1048576, 2097152, 4194304, 8388608, 16777216,
       33554432, 67108864, 134217728, 268435456, 536870912, 1073741824 >>[n + 1]

\* the number of binary digits of n, for n below 2^31
bit_length(n) ==
    IF n = 0 THEN 0
    ELSE CHOOSE L \in 1..31 : Pow2(L - 1) <= n /\ (L = 31 \/ n < Pow2(L))

\* A positive f32 is [m, e], the value m * 2^e with 2^23 <= m < 2^24.
\* f32_round: the f32 nearest to n * 2^e, ties to even; sticky says that the
\* exact value is above n * 2^e by less than 2^e.
f32_round(n, e, sticky) ==
    LET L == bit_length(n)
    IN  IF L <= F32Digits
        THEN [m |-> n * Pow2(F32Digits - L), e |-> e - (F32Digits - L)]
        ELSE LET sh   == L - F32Digits
                 k    == n \div Pow2(sh)
                 rem  == n % Pow2(sh)
                 half == Pow2(sh - 1)
                 up   == rem > half \/ (rem = half /\ (sticky \/ k % 2 = 1))
                 m    == IF up THEN k + 1 ELSE k
             IN  IF m = Pow2(F32Digits)
                 THEN [m |-> Pow2(F32Digits - 1), e |-> e + sh + 1]
                 ELSE [m |-> m, e |-> e + sh]

\* num as f32
f32_of_u32(num) == f32_round(num, 0, FALSE)

\* k as f32 * x, k a small integer constant: the exact product, rounded once
f32_mul_const(k, x) == f32_round(k * x.m, x.e, FALSE)

\* long division: n more binary digits of the quotient, n at most 7
div_bits(d, md, n) ==
    [quot |-> d.quot * Pow2(n) + ((d.rem * Pow2(n)) \div md),
     rem  |-> (d.rem * Pow2(n)) % md]

\* x / y: the quotient of the significands to F32Digits + 1 binary places,
\* rounded once
f32_div(x, y) ==
    LET d0 == [quot |-> x.m \div y.m, rem |-> x.m % y.m]
        d1 == div_bits(d0, y.m, 7)
        d2 == div_bits(d1, y.m, 6)
        d3 == div_bits(d2, y.m, 6)
        r  == div_bits(d3, y.m, F32Digits + 1 - 19)
    IN  f32_round(r.quot, x.e - y.e - (F32Digits + 1), r.rem # 0)

\* (x + 0.5) as u32, for x below 2^23
f32_add_half_as_u32(x) ==
    IF x.e <= 0 - (F32Digits + 1)
    THEN \* x < 0.5: the sum is in [0.5, 1] and truncates to 1 only if it rounds to 1.0
         LET s == 0 - F32Digits - x.e
         IN  IF s > F32Digits + 1 THEN 0
             ELSE LET k    == x.m \div Pow2(s)
                      rem  == x.m % Pow2(s)
                      half == Pow2(s - 1)
                      up   == rem > half \/ (rem = half /\ k % 2 = 1)
                      m    == Pow2(F32Digits - 1) + k + (IF up THEN 1 ELSE 0)
                  IN  IF m = Pow2(F32Digits) THEN 1 ELSE 0
    ELSE LET sum == x.m + Pow2(0 - 1 - x.e)
         IN  IF sum < Pow2(F32Digits)
             THEN sum \div Pow2(0 - x.e)
             ELSE LET n == sum \div 2
                      m == IF sum % 2 = 1 /\ n % 2 = 1 THEN n + 1 ELSE n
                  IN  m \div Pow2(0 - x.e - 1)

\* bars_mult = (124.0 * total_samples as f32) / (sample_rate * 60) as f32 + 0.5
\* and bars = bars_mult as u32 * 25, every operation rounded to the nearest f32
bars_of(total_samples, sample_rate) ==
    IF total_samples = 0 THEN 0
    ELSE LET product   == f32_mul_const(BarsTempo, f32_of_u32(total_samples))
             divisor   == f32_of_u32(sample_rate * 60)
             bars_mult == f32_div(product, divisor)
         IN  f32_add_half_as_u32(bars_mult) * BarsScale

----------------------------------------------------------------------------
(* the .ot record written by generate_ot_file *)

Header ==
    << 70, 79, 82, 77, 0, 0, 0, 0, 68, 80, 83, 49, 83, 77, 80, 65, 0, 0, 0, 0, 0, 2, 0 >>

RECURSIVE total_samples_of(_, _)
total_samples_of(slices, n) ==
    IF n = 0 THEN 0 ELSE total_samples_of(slices, n - 1) + slices[n].length

\* the three fields of slot i (0-based): the i-th slice, or zeros
slot_bytes(slices, i) ==
    IF i < Len(slices)
    THEN push_u32(push_u32(push_u32(<<>>,
             slices[i + 1].start_point),
             slices[i + 1].start_point + slices[i + 1].length),
             slices[i + 1].loop_point)
    ELSE push_u32(push_u32(push_u32(<<>>, 0), 0), 0)

\* the bytes pushed for slots lo..hi (0-based), in slot order
RECURSIVE slots_bytes(_, _, _)
slots_bytes(slices, lo, hi) ==
    IF lo > hi THEN <<>>
    ELSE IF lo = hi THEN slot_bytes(slices, lo)
    ELSE LET mid == (lo + hi) \div 2
         IN  slots_bytes(slices, lo, mid) \o slots_bytes(slices, mid + 1, hi)

push_slots_used(file_data, slices) == file_data \o slots_bytes(slices, 0, Len(slices) - 1)

\* for i in 0..64: the slots appended to file_data
push_slots(file_data, slices) == file_data \o slots_bytes(slices, 0, SlotCount - 1)

ot_body_reads_length(self) ==
    LET tempo         == tempo_field(self).value
        total_samples == total_samples_of(self.slices, Len(self.slices))
        bars          == bars_of(total_samples, self.sample_rate)
        d1  == push_u32(Header, tempo)
        d2  == push_u32(d1, bars)
        d3  == push_u32(d2, self.max_file_length)
        d4  == push_u32(d3, 0)
        d5  == push_u32(d4, 0)
        d6  == push_u16(d5, GainValue)
        d7  == Append(d6, QuantizeValue)
        d8  == push_u32(d7, 0)
        d9  == push_u32(d8, total_samples)
        d10 == push_u32(d9, 0)
        d11 == push_slots(d10, self.slices)
    IN  push_u32(d11, Len(self.slices))

\* file_data before the checksum is pushed
ot_body(self) ==
    LET tempo         == tempo_field(self).value
        total_samples == total_samples_of(self.slices, Len(self.slices))
        bars          == bars_of(total_samples, self.sample_rate)
        d1  == push_u32(Header, tempo)
        d2  == push_u32(d1, bars)
        d3  == push_u32(d2, bars)
        d4  == push_u32(d3, 0)
        d5  == push_u32(d4, 0)
        d6  == push_u16(d5, GainValue)
        d7  == Append(d6, QuantizeValue)
        d8  == push_u32(d7, 0)
        d9  == push_u32(d8, total_samples)
        d10 == push_u32(d9, 0)
        d11 == push_slots(d10, self.slices)
    IN  push_u32(d11, Len(self.slices))

\* sum of file_data[lo..hi] (1-based), split in halves
RECURSIVE byte_sum(_, _, _)
byte_sum(file_data, lo, hi) ==
    IF lo > hi THEN 0
    ELSE IF lo = hi THEN file_data[lo]
    ELSE LET mid == (lo + hi) \div 2
         IN  byte_sum(file_data, lo, mid) + byte_sum(file_data, mid + 1, hi)

\* checksum += file_data[i] as u16 for i in 16..len, on a u16 accumulator.
\* The bytes are not negative, so the wrapped accumulator ends as the sum
\* modulo 2^16, and one of the additions overflows exactly when the sum
\* reaches 2^16.
checksum_of(file_data) ==
    LET s == byte_sum(file_data, ChecksumStart + 1, Len(file_data))
    IN  [value |-> s % U16Mod, overflowed |-> s >= U16Mod]

----------------------------------------------------------------------------
(* Slicer::generate_ot_file *)

remove_file_skipped(disk, path) == disk

\* fs::remove_file on a path that is a file; a path that is none stays none
remove_file(disk, path) == [disk EXCEPT ![path] = NoFile]

\* w = [self, wav, ot]; checks: the build panics on arithmetic overflow
generate_ot_file(w, evenly_spaced, checks) ==
    LET final_wav_file == OutPath(w.self)
        removed   == remove_file(w.wav, final_wav_file)
        processed == process_all([self |-> w.self, wav |-> removed],
                                 Len(w.self.filelist), evenly_spaced)
        file_data == ot_body(processed.self)
        checksum  == checksum_of(file_data)
    IN  IF processed.panic
        THEN [ self |-> processed.self, wav |-> processed.wav, ot |-> w.ot,
               result |-> "Panic", encoded |-> <<>> ]
        ELSE IF checks /\ (tempo_field(processed.self).overflowed \/ checksum.overflowed)
        THEN [ self |-> processed.self, wav |-> processed.wav, ot |-> w.ot,
               result |-> "Panic", encoded |-> processed.self.slices ]
        ELSE [ self |-> clear(processed.self), wav |-> processed.wav,
               ot |-> [w.ot EXCEPT ![OutPath(processed.self)] = FileOf(push_u16(file_data, checksum.value))],
               result |-> "Ok", encoded |-> processed.self.slices ]

----------------------------------------------------------------------------
(* The state machine *)

NoCall == [op |-> "new", path |-> "", evenly_spaced |-> FALSE, result |-> "Ok",
           pre |-> new, wav_pre |-> NoFile, encoded |-> <<>>]

Init ==
    /\ slicer = new
    /\ wav_disk = [p \in OutPaths |-> NoFile]
    /\ ot_disk = [p \in OutPaths |-> NoFile]
    /\ panicked = FALSE
    /\ overflow_checks \in BOOLEAN
    /\ batches = 0
    /\ admitted = 0
    /\ batch_files = <<>>
    /\ last = NoCall

\* the caller calls add_file(filepath)
AddFile(filepath) ==
    /\ ~panicked
    /\ \E r \in {add_file(slicer, filepath)} :
           /\ slicer' = r.self
           /\ last' = [op |-> "add_file", path |-> filepath, evenly_spaced |-> FALSE,
                       result |-> r.result, pre |-> slicer, wav_pre |-> NoFile,
                       encoded |-> <<>>]
           /\ admitted' = IF r.result = "Ok" THEN admitted + 1 ELSE admitted
           /\ batch_files' = IF r.result = "Ok" THEN Append(batch_files, filepath) ELSE batch_files
    /\ UNCHANGED <<wav_disk, ot_disk, panicked, overflow_checks, batches>>

\* the caller calls generate_ot_file(evenly_spaced)
Generate(evenly_spaced) ==
    /\ ~panicked
    /\ \E r \in {generate_ot_file([self |-> slicer, wav |-> wav_disk, ot |-> ot_disk],
                                 evenly_spaced, overflow_checks)} :
           /\ slicer' = r.self
           /\ wav_disk' = r.wav
           /\ ot_disk' = r.ot
           /\ panicked' = (r.result = "Panic")
           /\ last' = [op |-> "generate_ot_file", path |-> "", evenly_spaced |-> evenly_spaced,
                       result |-> r.result, pre |-> slicer,
                       wav_pre |-> wav_disk[OutPath(slicer)], encoded |-> r.encoded]
    /\ batches' = batches + 1
    /\ batch_files' = <<>>
    /\ UNCHANGED <<overflow_checks, admitted>>

\* the caller calls clear()
Clear ==
    /\ ~panicked
    /\ slicer' = clear(slicer)
    /\ last' = [op |-> "clear", path |-> "", evenly_spaced |-> FALSE, result |-> "Ok",
                pre |-> slicer, wav_pre |-> NoFile, encoded |-> <<>>]
    /\ UNCHANGED <<wav_disk, ot_disk, panicked, overflow_checks, batches, admitted, batch_files>>

\* the caller assigns the public configuration fields
Configured(self) ==
    /\ slicer' = self
    /\ self # slicer
    /\ last' = [op |-> "configure", path |-> "", evenly_spaced |-> FALSE, result |-> "Ok",
                pre |-> slicer, wav_pre |-> NoFile, encoded |-> <<>>]
    /\ UNCHANGED <<wav_disk, ot_disk, panicked, overflow_checks, batches, admitted, batch_files>>

SetTempo(t) == ~panicked /\ Configured([slicer EXCEPT !.tempo = t])

SetSampleRate(r) == ~panicked /\ Configured([slicer EXCEPT !.sample_rate = r])

SetOutput(folder, filename) ==
    ~panicked /\ Configured([slicer EXCEPT !.output_folder = folder, !.output_filename = filename])

\* one batch: any configuration, up to MaxFiles admissions, one generate
Next ==
    \/ \E p \in Paths : batches = 0 /\ Len(slicer.filelist) < MaxFiles /\ AddFile(p)
    \/ \E e \in BOOLEAN : batches = 0 /\ Generate(e)
    \/ batches = 0 /\ Clear
    \/ \E t \in Tempos : batches = 0 /\ SetTempo(t)
    \/ \E r \in SampleRates : batches = 0 /\ SetSampleRate(r)
    \/ \E o \in OutPaths : batches = 0 /\ SetOutput(o[1], o[2])

Spec == Init /\ [][Next]_vars

\* one batch that fills the slice table: up to MaxCapFiles admissions, the
\* first MaxVaried of any path of CapPaths, the later ones repeating the last
CapAdd(p) ==
    /\ batches = 0
    /\ Len(slicer.filelist) < MaxCapFiles
    /\ Len(slicer.filelist) >= MaxVaried => p = slicer.filelist[Len(slicer.filelist)]
    /\ AddFile(p)

NextCap ==
    \/ \E p \in CapPaths : CapAdd(p)
    \/ \E e \in BOOLEAN : batches = 0 /\ Generate(e)

SpecCap == Init /\ [][NextCap]_vars

\* several batches on the same Slicer: up to MaxBatches generates and
\* MaxRunFiles admissions in all
NextBatches ==
    \/ \E p \in BatchPaths : batches < MaxBatches /\ admitted < MaxRunFiles /\ AddFile(p)
    \/ \E e \in BOOLEAN : batches < MaxBatches /\ Generate(e)
    \/ batches < MaxBatches /\ Clear
    \/ \E o \in OutPaths : batches < MaxBatches /\ SetOutput(o[1], o[2])

SpecBatches == Init /\ [][NextBatches]_vars

\* one batch for the encoder: tempo and sample rate at the ends of their
\* ranges, up to MaxEncFiles admissions, one generate
NextEnc ==
    \/ \E p \in EncPaths : batches = 0 /\ Len(slicer.filelist) < MaxEncFiles /\ AddFile(p)
    \/ \E e \in BOOLEAN : batches = 0 /\ Generate(e)
    \/ \E t \in EncTempos : batches = 0 /\ SetTempo(t)
    \/ \E r \in SampleRates : batches = 0 /\ SetSampleRate(r)

SpecEnc == Init /\ [][NextEnc]_vars

----------------------------------------------------------------------------
(* Reading a finished call and the files it left *)

\* the last call was generate_ot_file and it returned Ok
Completed == last.op = "generate_ot_file" /\ last.result = "Ok"

\* the files the last generate_ot_file call found admitted, in admission order
AdmittedFiles == last.pre.filelist

\* the .ot record and the audio the last generate_ot_file call left on disk
WrittenOt == ot_disk[OutPath(last.pre)].data
WrittenWav == wav_disk[OutPath(last.pre)].data

\* the big-endian u32 at 0-based offset off
be32(buf, off) ==
    buf[off + 1] * 16777216 + buf[off + 2] * 65536 + buf[off + 3] * 256 + buf[off + 4]

be16(buf, off) == buf[off + 1] * 256 + buf[off + 2]

\* the four bytes at 0-based offset off are the big-endian u32 num
be32_is(buf, off, num) ==
    SubSeq(buf, off + 1, off + 4)
        = << (num \div 16777216) % 256, (num \div 65536) % 256, (num \div 256) % 256, num % 256 >>

RECURSIVE real_samples(_, _)
real_samples(files, n) ==
    IF n = 0 THEN 0 ELSE real_samples(files, n - 1) + SamplesOf(files[n])

RECURSIVE written_before(_, _)
written_before(wav, i) ==
    IF i <= 1 THEN 0 ELSE written_before(wav, i - 1) + wav[i - 1].real + wav[i - 1].pad

RECURSIVE longest(_, _)
longest(files, n) ==
    IF n = 0 THEN 0
    ELSE LET m == longest(files, n - 1)
         IN  IF SamplesOf(files[n]) > m THEN SamplesOf(files[n]) ELSE m

\* floor(124 * total_samples / (sample_rate * 60) + 0.5) * 25 in exact arithmetic
bars_of_exact(total_samples, sample_rate) ==
    ((2 * BarsTempo * total_samples + sample_rate * 60) \div (2 * sample_rate * 60)) * BarsScale

\* the record the encoder builds from a slice list, a tempo and a sample rate
\* alone, every other field of the Slicer as new() leaves it
EncodingOf(slices, tempo, sample_rate) ==
    LET body == ot_body([new EXCEPT !.slices = slices, !.tempo = tempo,
                                    !.sample_rate = sample_rate])
    IN  push_u16(body, checksum_of(body).value)

\* how many times path p occurs in the sequence of records or paths
RECURSIVE occurrences(_, _, _)
occurrences(paths, p, n) ==
    IF n = 0 THEN 0
    ELSE occurrences(paths, p, n - 1) + (IF paths[n] = p THEN 1 ELSE 0)

\* the source paths of the segments of an audio file
sources(wav) == [i \in 1..Len(wav) |-> wav[i].src]

----------------------------------------------------------------------------
(* Claims *)

\* C1: after successful add_file calls f1..fn (n <= 64) and generate_ot_file,
\* the i-th slice and the i-th segment of the concatenated audio belong to the
\* i-th admitted file.
C1_AdmissionOrder ==
    (Completed /\ Len(AdmittedFiles) <= SlotCount) =>
        /\ Len(last.encoded) = Len(AdmittedFiles)
        /\ Len(WrittenWav) = Len(AdmittedFiles)
        /\ \A i \in 1..Len(AdmittedFiles) :
              /\ WrittenWav[i].src = AdmittedFiles[i]
              /\ last.encoded[i].length = SamplesOf(AdmittedFiles[i])

\* C2: the first slice starts at 0 and each next slice starts where the
\* previous one started plus the samples written for the previous input
\* (max_file_length when evenly spaced, the slice length otherwise).
C2_StartPoints ==
    Completed =>
        LET s == last.encoded
            emitted(i) == IF last.evenly_spaced THEN last.pre.max_file_length ELSE s[i].length
        IN  /\ Len(s) > 0 => s[1].start_point = 0
            /\ \A i \in 1..(Len(s) - 1) :
                  s[i + 1].start_point = s[i].start_point + emitted(i)
            /\ \A i \in 1..Len(s) :
                  i <= Len(WrittenWav) => s[i].start_point = written_before(WrittenWav, i)

\* C3: after 64 successful admissions a 65th add_file on a valid file returns
\* an error and leaves the Slicer unchanged.
C3_Rejects65th ==
    (last.op = "add_file" /\ Len(last.pre.filelist) = SlotCount /\ is_file(last.path)
        /\ SpecOf(last.path) = ValidSpec(last.pre)) =>
        (last.result # "Ok" /\ slicer = last.pre)

\* C4: the slice list never holds more than 64 slices and the slice count
\* written into a metadata record is never greater than 64.
C4_AtMost64 ==
    /\ Len(slicer.slices) <= SlotCount
    /\ Len(last.encoded) <= SlotCount
    /\ \A p \in OutPaths : ot_disk[p].exists => be32(ot_disk[p].data, 826) <= SlotCount

\* C5: in both modes the sum of slice.length at encode time, which is the
\* trim-end field written, equals the sum of the real sample counts of the
\* admitted inputs.
C5_LengthSum ==
    Completed =>
        /\ total_samples_of(last.encoded, Len(last.encoded))
               = real_samples(AdmittedFiles, Len(AdmittedFiles))
        /\ be32(WrittenOt, 50) = real_samples(AdmittedFiles, Len(AdmittedFiles))

\* an evenly spaced batch in which an input shorter than the longest was padded
C5_Witness ==
    /\ Completed /\ last.evenly_spaced /\ Len(AdmittedFiles) >= 2
    /\ \E i \in 1..Len(WrittenWav) : WrittenWav[i].pad > 0

\* C6: an add_file call on a missing file or on a file of another format
\* returns an error and leaves the Slicer as it was.
C6_FailedAddNoChange ==
    (last.op = "add_file"
        /\ (~is_file(last.path) \/ SpecOf(last.path) # ValidSpec(last.pre))) =>
        /\ last.result \in {"ErrInvalidFile", "ErrFileNotFound"}
        /\ slicer = last.pre

\* a file of the wrong sample rate, longer than every accepted file, rejected
\* after another file was accepted
C6_Witness ==
    /\ last.op = "add_file" /\ last.result = "ErrInvalidFile"
    /\ last.path = "rate48k.wav"
    /\ Len(last.pre.filelist) > 0
    /\ SamplesOf(last.path) > last.pre.max_file_length

\* C7: in evenly spaced mode every input of a batch is written as exactly M
\* samples, M the longest real length among the inputs of that same batch.
C7_BatchPadding ==
    (Completed /\ last.evenly_spaced) =>
        \A i \in 1..Len(WrittenWav) :
            WrittenWav[i].real + WrittenWav[i].pad = longest(AdmittedFiles, Len(AdmittedFiles))

\* C8: after a successful generate_ot_file the slice list is empty,
\* start_offset is 0, sample_rate is 44100 and tempo is 124, and the output
\* folder and file name are the ones configured before.
C8_ResetAfterGenerate ==
    Completed =>
        /\ slicer.slices = <<>>
        /\ slicer.start_offset = 0
        /\ slicer.sample_rate = 44100
        /\ slicer.tempo = 124
        /\ slicer.output_folder = last.pre.output_folder
        /\ slicer.output_filename = last.pre.output_filename

\* a generate with a tempo, sample rate and output the caller had configured
C8_Witness ==
    /\ Completed
    /\ last.pre.tempo = 120 /\ last.pre.sample_rate = 48000
    /\ last.pre.output_folder = "out" /\ last.pre.output_filename = "chain"
    /\ Len(AdmittedFiles) > 0

\* C9: the encoder never fails and the checksum stored at offsets 830..831
\* is the sum of the bytes at 16..829 modulo 65536, also when that sum
\* exceeds 65535.
C9_ChecksumNeverFails ==
    (last.op = "generate_ot_file" /\ Len(last.pre.filelist) <= SliceLimit) =>
        /\ last.result = "Ok"
        /\ be16(WrittenOt, 830) = byte_sum(WrittenOt, 17, 830) % 65536

\* C10: the record holds 64 slots of three big-endian u32 from offset 58:
\* slot i < n is (start_point, start_point + length, loop_point) of slice i,
\* slots n..63 are zero bytes, and the u32 at offset 826 is n.
C10_SlotLayout ==
    (Completed /\ Len(last.encoded) <= SlotCount) =>
        LET n == Len(last.encoded)
        IN  /\ \A i \in 0..(SlotCount - 1) :
                  IF i < n
                  THEN /\ be32_is(WrittenOt, 58 + 12 * i, last.encoded[i + 1].start_point)
                       /\ be32_is(WrittenOt, 58 + 12 * i + 4,
                                  last.encoded[i + 1].start_point + last.encoded[i + 1].length)
                       /\ be32_is(WrittenOt, 58 + 12 * i + 8, last.encoded[i + 1].loop_point)
                  ELSE \A k \in 1..12 : WrittenOt[58 + 12 * i + k] = 0
            /\ be32_is(WrittenOt, 826, n)

\* a record with three slices and 61 empty slots
C10_Witness == Completed /\ Len(last.encoded) = 3

\* C11 as stated: every metadata record generate_ot_file writes is 874 bytes
\* long.
C11_Length874 ==
    \A p \in OutPaths : ot_disk[p].exists => Len(ot_disk[p].data) = 874

\* C11 (amended): every metadata record generate_ot_file writes is 832 bytes
\* long, whatever the number of slices, the tempo and the sample rate.
C11_FixedLength ==
    \A p \in OutPaths : ot_disk[p].exists => Len(ot_disk[p].data) = 832

\* a record written for a full slice table
C11_Witness ==
    Completed /\ Len(last.encoded) = SlotCount /\ ot_disk[OutPath(last.pre)].exists

\* C12: a generate_ot_file call that returns has processed every pending
\* input into the audio file and then written the metadata file; a call in
\* which processing an input fails writes no metadata file.
C12_OtAfterAllInputs ==
    [][ batches' = batches + 1 =>
            IF last'.result = "Ok"
            THEN /\ slicer'.filelist = <<>>
                 /\ Len(wav_disk'[OutPath(slicer)].data) = Len(slicer.filelist)
                 /\ ot_disk'[OutPath(slicer)].exists
            ELSE ot_disk' = ot_disk ]_vars

\* a batch aborted by the no-more-slots error, with no metadata file on disk
C12_Witness ==
    /\ last.op = "generate_ot_file" /\ last.result = "Panic"
    /\ Len(last.pre.filelist) > SliceLimit
    /\ ~ot_disk[OutPath(last.pre)].exists

\* C13: the record written depends on the slice list, the tempo and the
\* sample rate only: it is the record the encoder builds from these three with
\* max_file_length, start_offset, the output names and the pending list
\* replaced by their initial values.
C13_EncodingDependsOn ==
    Completed => WrittenOt = EncodingOf(last.encoded, last.pre.tempo, last.pre.sample_rate)

\* a record written under another output name, tempo and sample rate, with a
\* max_file_length and a start_offset that are not the initial ones
C13_Witness ==
    /\ Completed /\ Len(last.encoded) >= 2
    /\ OutPath(last.pre) # OutPath(new)
    /\ last.pre.tempo # DefaultTempo /\ last.pre.sample_rate # DefaultSampleRate
    /\ last.pre.max_file_length > 0

\* C14 as stated: for every positive tempo generate_ot_file writes 24 times
\* the tempo at offset 23.
C14_TempoFieldAnyTempo ==
    (last.op = "generate_ot_file" /\ Len(last.pre.filelist) <= SlotCount) =>
        /\ last.result = "Ok"
        /\ be32(WrittenOt, 23) % 24 = 0
        /\ be32(WrittenOt, 23) \div 24 = last.pre.tempo

\* C14 (amended): for every tempo up to 178956970, the largest whose 24-fold
\* fits a u32, generate_ot_file writes 24 times the tempo at offset 23.
C14_TempoField ==
    (last.op = "generate_ot_file" /\ Len(last.pre.filelist) <= SlotCount
        /\ last.pre.tempo <= 178956970) =>
        /\ last.result = "Ok"
        /\ be32(WrittenOt, 23) % 24 = 0
        /\ be32(WrittenOt, 23) \div 24 = last.pre.tempo

\* a record written for a tempo whose 24-fold needs 31 bits
C14_Witness ==
    Completed /\ last.pre.tempo = 89478485 /\ be32(WrittenOt, 23) = 2147483640

\* C15: the fields at offsets 27 and 31 are equal, and equal to
\* floor(124 * total_samples / (sample_rate * 60) + 0.5) * 25, whatever the
\* tempo.
C15_BarsFormula ==
    Completed =>
        /\ be32(WrittenOt, 27) = be32(WrittenOt, 31)
        /\ be32(WrittenOt, 27)
               = bars_of_exact(total_samples_of(last.encoded, Len(last.encoded)),
                               last.pre.sample_rate)

\* C16: an add_file call changes neither the slice list nor start_offset nor
\* the audio on disk; these change in generate_ot_file calls only.
C16_AddFileFrame ==
    [][ /\ last'.op = "add_file" =>
               /\ slicer'.slices = slicer.slices
               /\ slicer'.start_offset = slicer.start_offset
               /\ wav_disk' = wav_disk
        /\ (slicer'.slices # slicer.slices \/ slicer'.start_offset # slicer.start_offset
               \/ wav_disk' # wav_disk) => last'.op = "generate_ot_file" ]_vars

\* a second admission, after which there is still no slice and no audio
C16_Witness ==
    /\ last.op = "add_file" /\ last.result = "Ok" /\ Len(slicer.filelist) = 2
    /\ slicer.max_file_length > last.pre.max_file_length
    /\ slicer.slices = <<>> /\ slicer.start_offset = 0
    /\ \A p \in OutPaths : ~wav_disk[p].exists

\* C17: after a successful generate_ot_file over n inputs the audio file
\* holds n segments and n * max_file_length samples when evenly spaced, the
\* sum of the real sample counts otherwise, also when a file of that name
\* existed before the call.
C17_BatchAudioOnly ==
    Completed =>
        LET n == Len(AdmittedFiles)
        IN  /\ Len(WrittenWav) = n
            /\ written_before(WrittenWav, n + 1)
                   = IF last.evenly_spaced THEN n * last.pre.max_file_length
                     ELSE real_samples(AdmittedFiles, n)

\* 22050 and 44100 samples evenly spaced give 88200, written over the audio
\* file an earlier generate left under the same name
C17_Witness ==
    /\ Completed /\ last.evenly_spaced
    /\ last.wav_pre.exists /\ Len(last.wav_pre.data) > 0
    /\ AdmittedFiles = <<"a.wav", "b.wav">>
    /\ written_before(WrittenWav, 3) = 88200

\* C18: max_file_length is at least the sample count of every pending file
\* and never decreases, and an evenly spaced generate writes, for each input,
\* all of its samples followed by zeros up to max_file_length.
C18_MaxCoversPending ==
    /\ \A i \in 1..Len(slicer.filelist) :
           SamplesOf(slicer.filelist[i]) <= slicer.max_file_length
    /\ slicer.max_file_length >= last.pre.max_file_length
    /\ (Completed /\ last.evenly_spaced) =>
           \A i \in 1..Len(WrittenWav) :
               /\ WrittenWav[i].real = SamplesOf(WrittenWav[i].src)
               /\ WrittenWav[i].real + WrittenWav[i].pad = last.pre.max_file_length

\* a second batch padded to a max_file_length that an earlier batch left
C18_Witness ==
    /\ Completed /\ last.evenly_spaced /\ batches = 2
    /\ Len(AdmittedFiles) > 0
    /\ last.pre.max_file_length > longest(AdmittedFiles, Len(AdmittedFiles))

\* C19: between calls the slice list is empty, start_offset is 0 and the
\* pending list holds the files admitted since the previous generate_ot_file;
\* a completed generate_ot_file leaves the pending list empty and, for up to
\* 64 files, wrote their number as the slice count.
C19_BatchBoundaries ==
    /\ ~panicked =>
           /\ slicer.slices = <<>>
           /\ slicer.start_offset = 0
           /\ slicer.filelist = batch_files
    /\ last.op = "generate_ot_file" =>
           (last.pre.slices = <<>> /\ last.pre.start_offset = 0)
    /\ Completed =>
           /\ slicer.filelist = <<>>
           /\ Len(WrittenWav) = Len(AdmittedFiles)
           /\ Len(AdmittedFiles) <= SlotCount => be32(WrittenOt, 826) = Len(AdmittedFiles)

\* a second generate on a Slicer whose first generate had files of its own
C19_Witness ==
    /\ Completed /\ batches = 2
    /\ Len(AdmittedFiles) > 0
    /\ admitted > Len(AdmittedFiles)

\* C20: clear() empties the slice list, sets start_offset to 0, sample_rate
\* to 44100 and tempo to 124, and leaves the pending list and max_file_length
\* as they were; the files admitted since the previous generate stay pending
\* and a completed generate_ot_file has written every one of them.
C20_ClearFrame ==
    /\ last.op = "clear" =>
           /\ slicer.slices = <<>>
           /\ slicer.start_offset = 0
           /\ slicer.sample_rate = 44100
           /\ slicer.tempo = 124
           /\ slicer.filelist = last.pre.filelist
           /\ slicer.max_file_length = last.pre.max_file_length
    /\ ~panicked => slicer.filelist = batch_files
    /\ Completed =>
           \A p \in DOMAIN InputFiles :
               occurrences(sources(WrittenWav), p, Len(WrittenWav))
                   = occurrences(AdmittedFiles, p, Len(AdmittedFiles))

\* clear() called with two files pending and a tempo and sample rate the
\* caller had configured
C20_Witness ==
    /\ last.op = "clear" /\ Len(slicer.filelist) = 2
    /\ last.pre.tempo = 120 /\ last.pre.sample_rate = 48000
    /\ slicer.max_file_length > 0

====
